---------------------------- MODULE Spec2Model ----------------------------
(***************************************************************************)
(* A model of the AnonymizerApp prototypes:                                *)
(*   - anonymizer_hybrid.Anonymizer (NER pipeline + regex rules, overlap   *)
(*     resolver, right-to-left rewriter),                                  *)
(*   - fastapi_app.Anonymizer (six regex patterns, per-occurrence          *)
(*     placeholders, deanonymize by str.replace),                          *)
(*   - fastapi_app.get_cohere_analysis (retry loop).                       *)
(* Texts are sequences of one-character strings; offsets are 0-based and   *)
(* half-open as in Python.                                                 *)
(***************************************************************************)
EXTENDS Integers, Sequences, FiniteSets, TLC

VARIABLES prog, pc, text, cuts, nlp_pipeline, ner_results,
          entities_to_anonymize, candidates, non_overlapping_entities,
          anonymized_text,
          final_entities, k, result, matches, entities, deanonymized_text,
          i, delay, calls, sleeps

vars == <<prog, pc, text, cuts, nlp_pipeline, ner_results,
          entities_to_anonymize, candidates, non_overlapping_entities,
          anonymized_text,
          final_entities, k, result, matches, entities, deanonymized_text,
          i, delay, calls, sleeps>>

-----------------------------------------------------------------------------
(* Bounds of the model *)

\* texts are made of at most MaxSegs pieces of the vocabulary
MaxSegs == 3
\* the NER pipeline reports at most MaxNer entity groups
MaxNer == 1

-----------------------------------------------------------------------------
(* Characters and Python string primitives *)

Digit == {"0","1","2","3","4","5","6","7","8","9"}
Upper == {"A","B","C","D","E","F","G","H","I","J","K","L","M",
          "N","O","P","Q","R","S","T","U","V","W","X","Y","Z"}
Lower == {"a","b","c","d","e","f","g","h","i","j","k","l","m",
          "n","o","p","q","r","s","t","u","v","w","x","y","z"}
Letter == Upper \cup Lower
AlNum == Letter \cup Digit
\* \w
WordCh == AlNum \cup {"_"}
\* \s
Space == {" ", "\t", "\n"}

NoMatch == 0 - 1

Min(a, b) == IF a < b THEN a ELSE b

\* the character at 0-based offset p, "" outside the text
At(t, p) == IF p >= 0 /\ p < Len(t) THEN t[p + 1] ELSE ""

\* Python's t[a:b] for 0 <= a, 0 <= b (indices past the end are clamped)
Slice(t, a, b) == SubSeq(t, Min(a, Len(t)) + 1, Min(b, Len(t)))

\* Python's t[a:]
SliceFrom(t, a) == SubSeq(t, Min(a, Len(t)) + 1, Len(t))

\* \b at offset p
WB(t, p) == (At(t, p - 1) \in WordCh) # (At(t, p) \in WordCh)

\* the length of the longest run of characters of S starting at offset p
RECURSIVE Run(_, _, _)
Run(t, p, S) == IF At(t, p) \in S THEN 1 + Run(t, p + 1, S) ELSE 0

\* n characters of S at offset p
AllIn(t, p, n, S) == \A j \in 0..(n - 1) : At(t, p + j) \in S

\* the literal w at offset p
Lit(t, p, w) == \A j \in 1..Len(w) : At(t, p + j - 1) = w[j]

\* Python's stable list.sort(reverse=True) on the keys key[1..n]: the
\* permutation that puts larger keys first and keeps equal keys in order
OrderDesc(key) ==
    LET n == Len(key)
        before(a, b) == key[a] > key[b] \/ (key[a] = key[b] /\ a < b)
        rank(a) == Cardinality({b \in 1..n : before(b, a)})
    IN  [r \in 1..n |-> CHOOSE a \in 1..n : rank(a) = r - 1]

\* Python's stable sorted() on the keys key[1..n]: smaller keys first
OrderAsc(key) ==
    LET n == Len(key)
        before(a, b) == key[a] < key[b] \/ (key[a] = key[b] /\ a < b)
        rank(a) == Cardinality({b \in 1..n : before(b, a)})
    IN  [r \in 1..n |-> CHOOSE a \in 1..n : rank(a) = r - 1]

\* pattern.finditer(text): scan left to right; ends[p + 1] is the end of the
\* match the engine finds starting at offset p, or NoMatch; the scan resumes
\* at the end of each match.  The result is the sequence of match spans.
FindIter(ends) ==
    LET n == Len(ends)
        scan[p \in 0..n] ==
            IF p >= n THEN <<>>
            ELSE IF ends[p + 1] > p
                 THEN <<[start |-> p, end |-> ends[p + 1]]>> \o scan[ends[p + 1]]
                 ELSE scan[p + 1]
    IN  scan[0]

-----------------------------------------------------------------------------
(* anonymizer_hybrid.py: the regex rules, each as the span the engine        *)
(* matches at offset p                                                       *)

L_PHONE == <<"P","H","O","N","E">>
L_CNP == <<"C","N","P">>
L_ID_CARD == <<"I","D","_","C","A","R","D">>
L_IBAN == <<"I","B","A","N">>
L_EMAIL == <<"E","M","A","I","L">>
L_ADDRESS == <<"A","D","D","R","E","S","S">>

\* \b(07\d{8}|06\d{7}|02\d{8}|03\d{8})\b
HPhoneAt(t, p) ==
    IF ~WB(t, p) THEN NoMatch
    ELSE IF Lit(t, p, <<"0","7">>) /\ AllIn(t, p + 2, 8, Digit) /\ WB(t, p + 10)
         THEN p + 10
    ELSE IF Lit(t, p, <<"0","6">>) /\ AllIn(t, p + 2, 7, Digit) /\ WB(t, p + 9)
         THEN p + 9
    ELSE IF Lit(t, p, <<"0","2">>) /\ AllIn(t, p + 2, 8, Digit) /\ WB(t, p + 10)
         THEN p + 10
    ELSE IF Lit(t, p, <<"0","3">>) /\ AllIn(t, p + 2, 8, Digit) /\ WB(t, p + 10)
         THEN p + 10
    ELSE NoMatch

\* \b(1|2)\d{12}\b
HCnpAt(t, p) ==
    IF /\ WB(t, p)
       /\ At(t, p) \in {"1", "2"}
       /\ AllIn(t, p + 1, 12, Digit)
       /\ WB(t, p + 13)
    THEN p + 13 ELSE NoMatch

\* [A-Z]{2}\s?\d{7}
HIdCardAt(t, p) ==
    IF ~AllIn(t, p, 2, Upper) THEN NoMatch
    ELSE IF At(t, p + 2) \in Space
         THEN (IF AllIn(t, p + 3, 7, Digit) THEN p + 10 ELSE NoMatch)
         ELSE (IF AllIn(t, p + 2, 7, Digit) THEN p + 9 ELSE NoMatch)

\* \bRO\d{2}[A-Z]{4}\d{16}\b
HIbanAt(t, p) ==
    IF /\ WB(t, p)
       /\ Lit(t, p, <<"R","O">>)
       /\ AllIn(t, p + 2, 2, Digit)
       /\ AllIn(t, p + 4, 4, Upper)
       /\ AllIn(t, p + 8, 16, Digit)
       /\ WB(t, p + 24)
    THEN p + 24 ELSE NoMatch

\* [\w\.-]+@[\w\.-]+\.\w{2,} : the local part is the whole run before "@";
\* the domain backtracks to the last "." followed by two word characters
HEmailAt(t, p) ==
    LET C == WordCh \cup {".", "-"}
        a == Run(t, p, C)
        q == p + a + 1
        m == Run(t, q, C)
        dots == {d \in 1..(m - 1) : /\ At(t, q + d) = "."
                                    /\ At(t, q + d + 1) \in WordCh
                                    /\ At(t, q + d + 2) \in WordCh}
    IN  IF a >= 1 /\ At(t, p + a) = "@" /\ dots # {}
        THEN LET d == CHOOSE x \in dots : \A y \in dots : y <= x
             IN  q + d + 1 + Run(t, q + d + 1, WordCh)
        ELSE NoMatch

\* strada\s[\w\s]+\d+,\s?[\w\s]+ : "," is outside [\w\s], so the first run
\* ends at the "," and must end in a digit
HAddressAt(t, p) ==
    LET C == WordCh \cup Space
        a == Run(t, p + 7, C)
        r == p + 7 + a + 1
        b == Run(t, r, C)
    IN  IF /\ Lit(t, p, <<"s","t","r","a","d","a">>)
           /\ At(t, p + 6) \in Space
           /\ a >= 2
           /\ At(t, p + 7 + a - 1) \in Digit
           /\ At(t, p + 7 + a) = ","
           /\ b >= 1
        THEN r + b ELSE NoMatch

\* self.regex_rules, in the order of the dict
regex_rules == <<L_PHONE, L_CNP, L_ID_CARD, L_IBAN, L_EMAIL, L_ADDRESS>>

HMatchAt(label, t, p) ==
    CASE label = L_PHONE   -> HPhoneAt(t, p)
      [] label = L_CNP     -> HCnpAt(t, p)
      [] label = L_ID_CARD -> HIdCardAt(t, p)
      [] label = L_IBAN    -> HIbanAt(t, p)
      [] label = L_EMAIL   -> HEmailAt(t, p)
      [] label = L_ADDRESS -> HAddressAt(t, p)

-----------------------------------------------------------------------------
(* anonymizer_hybrid.py: Anonymizer *)

L_O == <<"O">>
L_PER == <<"P","E","R">>

\* _generate_label_replacement: f"[{label}]"
generate_label_replacement(label) == <<"[">> \o label \o <<"]">>

\* the dict appended to entities_to_anonymize for a regex match [s, e) of t
Candidate(t, s, e, label) ==
    [start |-> s, end |-> e, original_text |-> Slice(t, s, e),
     label |-> label, replacement |-> generate_label_replacement(label)]

\* step 1: the entity groups of the pipeline whose label is not "O"
NerEntities(t, ner) ==
    LET keep(g) == g.entity_group \notin {L_O}
        kept == SelectSeq(ner, keep)
    IN  [j \in 1..Len(kept) |->
            [start |-> kept[j].start, end |-> kept[j].end,
             original_text |-> kept[j].word, label |-> kept[j].entity_group,
             replacement |-> generate_label_replacement(kept[j].entity_group)]]

\* step 2, one rule: a candidate for every match of pattern.finditer(text)
RuleEntities(t, label) ==
    LET ms == FindIter([q \in 1..Len(t) |-> HMatchAt(label, t, q - 1)])
    IN  [j \in 1..Len(ms) |-> Candidate(t, ms[j].start, ms[j].end, label)]

\* step 2: the rules in the order of regex_rules.items()
RECURSIVE RegexEntitiesFrom(_, _)
RegexEntitiesFrom(t, r) ==
    IF r > Len(regex_rules) THEN <<>>
    ELSE RuleEntities(t, regex_rules[r]) \o RegexEntitiesFrom(t, r + 1)

RegexEntities(t) == RegexEntitiesFrom(t, 1)

\* a sort by length that puts the shortest first
SortByLengthAscending(es) ==
    LET o == OrderAsc([j \in 1..Len(es) |-> es[j].end - es[j].start])
    IN  [r \in 1..Len(es) |-> es[o[r]]]

\* entities.sort(key=lambda x: x['end'] - x['start'], reverse=True)
SortByLength(es) ==
    LET o == OrderDesc([j \in 1..Len(es) |-> es[j].end - es[j].start])
    IN  [r \in 1..Len(es) |-> es[o[r]]]

\* range(entity['start'], entity['end'])
EntityRange(e) == e.start .. (e.end - 1)

\* the loop of _filter_overlapping_entities over the sorted list, from its
\* j-th element, with the entities kept and the indices covered so far
RECURSIVE FilterLoop(_, _, _, _)
FilterLoop(es, j, filtered, covered) ==
    IF j > Len(es) THEN filtered
    ELSE LET is_overlapping == EntityRange(es[j]) \cap covered # {}
         IN  IF is_overlapping
             THEN FilterLoop(es, j + 1, filtered, covered)
             ELSE FilterLoop(es, j + 1, Append(filtered, es[j]),
                             covered \cup EntityRange(es[j]))

\* _filter_overlapping_entities
filter_overlapping_entities(es) == FilterLoop(SortByLength(es), 1, <<>>, {})

\* non_overlapping_entities.sort(key=lambda x: x['end'], reverse=True)
SortByEnd(es) ==
    LET o == OrderDesc([j \in 1..Len(es) |-> es[j].end])
    IN  [r \in 1..Len(es) |-> es[o[r]]]

\* a splice that resumes one character late
SpliceLate(t, e) ==
    Slice(t, 0, e.start) \o e.replacement \o SliceFrom(t, e.end + 1)

\* anonymized_text[:start] + replacement + anonymized_text[end:]
Splice(t, e) == Slice(t, 0, e.start) \o e.replacement \o SliceFrom(t, e.end)

\* the Entity appended to final_entities
Entity(e) ==
    [start |-> e.start, end |-> e.start + Len(e.replacement),
     text |-> e.original_text, label |-> e.label, replacement |-> e.replacement]

\* sorted(final_entities, key=lambda e: e.start)
SortByStart(es) ==
    LET o == OrderAsc([j \in 1..Len(es) |-> es[j].start])
    IN  [r \in 1..Len(es) |-> es[o[r]]]

-----------------------------------------------------------------------------
(* fastapi_app.py: the patterns of Anonymizer.anonymize_text *)

T_PHONE_NUMBER == <<"P","H","O","N","E","_","N","U","M","B","E","R">>
T_IBAN == <<"I","B","A","N">>
T_EMAIL_ADDRESS == <<"E","M","A","I","L","_","A","D","D","R","E","S","S">>
T_ID_CARD == <<"I","D","_","C","A","R","D">>
T_PERSONAL_CODE == <<"P","E","R","S","O","N","A","L","_","C","O","D","E">>
T_NAME == <<"N","A","M","E">>

\* (\b\d{10,12}\b) : a digit is a word character, so \b after the digits
\* needs the whole run
APhoneAt(t, p) ==
    LET r == Run(t, p, Digit)
    IN  IF WB(t, p) /\ r >= 10 /\ r <= 12 /\ WB(t, p + r)
        THEN p + r ELSE NoMatch

\* \b[A-Z]{2}[0-9A-Z]{2}[0-9A-Z]{12,30}\b
AIbanAt(t, p) ==
    LET r == Run(t, p, Upper \cup Digit)
    IN  IF /\ WB(t, p)
           /\ AllIn(t, p, 2, Upper)
           /\ r >= 16 /\ r <= 34
           /\ WB(t, p + r)
        THEN p + r ELSE NoMatch

\* \b[a-zA-Z0-9._%+-]+@[a-zA-Z0-9.-]+\.[a-zA-Z]{2,}\b : the domain
\* backtracks to the last "." followed by a run of two or more letters that
\* ends at a word boundary
AEmailAt(t, p) ==
    LET a == Run(t, p, AlNum \cup {".", "_", "%", "+", "-"})
        q == p + a + 1
        m == Run(t, q, AlNum \cup {".", "-"})
        tld(d) == Run(t, q + d + 1, Letter)
        dots == {d \in 1..(m - 1) : /\ At(t, q + d) = "."
                                    /\ tld(d) >= 2
                                    /\ WB(t, q + d + 1 + tld(d))}
    IN  IF WB(t, p) /\ a >= 1 /\ At(t, p + a) = "@" /\ dots # {}
        THEN LET d == CHOOSE x \in dots : \A y \in dots : y <= x
             IN  q + d + 1 + tld(d)
        ELSE NoMatch

\* \b[A-Z]{2}\s?\d{6,7}\b
AIdCardAt(t, p) ==
    LET s == IF At(t, p + 2) \in Space THEN 1 ELSE 0
        r == Run(t, p + 2 + s, Digit)
    IN  IF /\ WB(t, p)
           /\ AllIn(t, p, 2, Upper)
           /\ r \in {6, 7}
           /\ WB(t, p + 2 + s + r)
        THEN p + 2 + s + r ELSE NoMatch

\* \b\d{13}\b
APersonalCodeAt(t, p) ==
    IF WB(t, p) /\ Run(t, p, Digit) = 13 /\ WB(t, p + 13)
    THEN p + 13 ELSE NoMatch

\* [A-Z][a-z]+ at offset p: its end, or NoMatch
NameWordAt(t, p) ==
    IF At(t, p) \in Upper /\ Run(t, p + 1, Lower) >= 1
    THEN p + 1 + Run(t, p + 1, Lower) ELSE NoMatch

\* the ends of the capitalised words that follow each other from offset p,
\* one space apart
RECURSIVE NameChain(_, _)
NameChain(t, p) ==
    LET e == NameWordAt(t, p)
    IN  IF e = NoMatch THEN <<>>
        ELSE IF At(t, e) = " " THEN <<e>> \o NameChain(t, e + 1)
        ELSE <<e>>

\* \b[A-Z][a-z]+(?: [A-Z][a-z]+)+\b : the longest chain of two or more
\* words that ends at a word boundary
ANameAt(t, p) ==
    LET c == NameChain(t, p)
        g == Len(c)
    IN  IF ~WB(t, p) \/ g < 2 THEN NoMatch
        ELSE IF WB(t, c[g]) THEN c[g]
        ELSE IF g >= 3 THEN c[g - 1]
        ELSE NoMatch

\* patterns, in the order of the dict
patterns == <<T_PHONE_NUMBER, T_IBAN, T_EMAIL_ADDRESS, T_ID_CARD,
              T_PERSONAL_CODE, T_NAME>>

AMatchAt(entity_type, t, p) ==
    CASE entity_type = T_PHONE_NUMBER  -> APhoneAt(t, p)
      [] entity_type = T_IBAN          -> AIbanAt(t, p)
      [] entity_type = T_EMAIL_ADDRESS -> AEmailAt(t, p)
      [] entity_type = T_ID_CARD       -> AIdCardAt(t, p)
      [] entity_type = T_PERSONAL_CODE -> APersonalCodeAt(t, p)
      [] entity_type = T_NAME          -> ANameAt(t, p)

-----------------------------------------------------------------------------
(* fastapi_app.py: Anonymizer *)

\* str(i)
RECURSIVE IntToStr(_)
IntToStr(n) ==
    LET d == <<"0","1","2","3","4","5","6","7","8","9">>
    IN  IF n < 10 THEN <<d[n + 1]>>
        ELSE IntToStr(n \div 10) \o <<d[(n % 10) + 1]>>

\* f"[{match['entity_type']}_{i}]"
unique_id(entity_type, n) ==
    <<"[">> \o entity_type \o <<"_">> \o IntToStr(n) \o <<"]">>

\* the matches of one pattern, in the order of re.finditer
PatternMatches(t, entity_type) ==
    LET ms == FindIter([q \in 1..Len(t) |-> AMatchAt(entity_type, t, q - 1)])
    IN  [j \in 1..Len(ms) |->
            [entity_type |-> entity_type,
             original_text |-> Slice(t, ms[j].start, ms[j].end),
             start |-> ms[j].start, end |-> ms[j].end]]

RECURSIVE AllMatchesFrom(_, _)
AllMatchesFrom(t, r) ==
    IF r > Len(patterns) THEN <<>>
    ELSE PatternMatches(t, patterns[r]) \o AllMatchesFrom(t, r + 1)

\* matches.sort(key=lambda x: x['start'], reverse=True)
SortByStartDesc(ms) ==
    LET o == OrderDesc([j \in 1..Len(ms) |-> ms[j].start])
    IN  [r \in 1..Len(ms) |-> ms[o[r]]]

\* the list `matches` after the sort
SortedMatches(t) == SortByStartDesc(AllMatchesFrom(t, 1))

\* the loop `for i, match in enumerate(matches)` from its j-th match (i = j - 1),
\* with the working text and the entities so far
RECURSIVE RewriteLoop(_, _, _, _)
RewriteLoop(ms, j, t, es) ==
    IF j > Len(ms) THEN [anonymized_text |-> t, entities |-> es]
    ELSE LET id == unique_id(ms[j].entity_type, j - 1)
         IN  RewriteLoop(ms, j + 1,
                         Slice(t, 0, ms[j].start) \o id \o SliceFrom(t, ms[j].end),
                         Append(es, [unique_id |-> id,
                                     original_text |-> ms[j].original_text,
                                     entity_type |-> ms[j].entity_type]))

\* a rewrite that starts from an empty working text
api_anonymize_text_from_empty(t) == RewriteLoop(SortedMatches(t), 1, <<>>, <<>>)

\* Anonymizer.anonymize_text: (anonymized_text, entities)
api_anonymize_text(t) == RewriteLoop(SortedMatches(t), 1, t, <<>>)

\* str.replace(old, new), old not empty: every occurrence, left to right
RECURSIVE Replace(_, _, _)
Replace(s, old, new) ==
    IF Len(s) < Len(old) THEN s
    ELSE IF SubSeq(s, 1, Len(old)) = old
         THEN new \o Replace(SubSeq(s, Len(old) + 1, Len(s)), old, new)
         ELSE <<Head(s)>> \o Replace(Tail(s), old, new)

RECURSIVE DeanonymizeLoop(_, _, _)
DeanonymizeLoop(t, es, j) ==
    IF j > Len(es) THEN t
    ELSE DeanonymizeLoop(Replace(t, es[j].unique_id, es[j].original_text),
                         es, j + 1)

\* Anonymizer.deanonymize_text
api_deanonymize_text(t, es) == DeanonymizeLoop(t, es, 1)

-----------------------------------------------------------------------------
(* fastapi_app.py: get_cohere_analysis *)

retries == 5
initial_delay == 1
TooManyRequests == 429

\* the outcomes of one `await co.chat(...)`: a response, an ApiError with a
\* status code, or another exception
ChatOutcomes ==
    {[kind |-> "response", status_code |-> 200],
     [kind |-> "ApiError", status_code |-> TooManyRequests],
     [kind |-> "ApiError", status_code |-> 500],
     [kind |-> "Exception", status_code |-> 0]}

\* a retry test that also retries after the last attempt
ShouldRetryAlways(status_code, n) == status_code = TooManyRequests /\ n < retries

\* e.status_code == 429 and i < retries - 1
ShouldRetry(status_code, n) == status_code = TooManyRequests /\ n < retries - 1

-----------------------------------------------------------------------------
(* Inputs *)

\* the pieces the texts given to anonymizer_hybrid are made of; the NER
\* pipeline reports entity groups that start and end between two pieces
HybridPieces ==
    { <<"A","B"," ","0","7","1","2","3","4","5">>,
      <<"6","7","8">>,
      <<" ","I","o","n"," ","P","o","p","e","s","c","u">>,
      <<"@","x",".","r","o">> }

\* the pieces the texts given to fastapi_app are made of
ApiPieces ==
    { <<"0","7","1","2","3","4","5","6","7","8">>,
      <<"@","x",".","r","o">>,
      <<"[">> \o T_PHONE_NUMBER \o <<"_","0","]">>,
      <<" ","I","o","n"," ","P","o","p"," ">>,
      <<"A","B","1","2","3","4","5","6">> }

SegLists(pieces) == UNION {[1..n -> pieces] : n \in 0..MaxSegs}

RECURSIVE Concat(_)
Concat(segs) == IF segs = <<>> THEN <<>> ELSE Head(segs) \o Concat(Tail(segs))

\* the offsets between the pieces of segs
Cuts(segs) == {Len(Concat(SubSeq(segs, 1, j))) : j \in 0..Len(segs)}

\* what the pipeline may return for a text cut at c: at most MaxNer entity
\* groups, in text order, none overlapping the next, each with start <= end
NerGroups(t, c) ==
    {[entity_group |-> l, start |-> se[1], end |-> se[2],
      word |-> Slice(t, se[1], se[2])] :
        l \in {L_O, L_PER}, se \in {x \in c \X c : x[1] <= x[2]}}

NerOutputs(t, c) ==
    UNION {{r \in [1..n -> NerGroups(t, c)] :
                \A j \in 1..(n - 1) : r[j].end <= r[j + 1].start /\ r[j] # r[j + 1]}
           : n \in 0..MaxNer}

NoResult == [kind |-> "none"]

-----------------------------------------------------------------------------
(* Initial states: one request to one of the three programs *)

InitHybrid ==
    \E segs \in SegLists(HybridPieces) :
        /\ prog = "hybrid"
        /\ pc = "new"
        /\ text = Concat(segs)
        /\ cuts = Cuts(segs)

InitApi ==
    \E segs \in SegLists(ApiPieces) :
        /\ prog = "api"
        /\ pc = "request"
        /\ text = Concat(segs)
        /\ cuts = {}

InitCohere ==
    /\ prog = "cohere"
    /\ pc = "call"
    /\ text = <<>>
    /\ cuts = {}

Init ==
    /\ InitHybrid \/ InitApi \/ InitCohere
    /\ nlp_pipeline = "unset"
    /\ ner_results = <<>>
    /\ entities_to_anonymize = <<>>
    /\ candidates = <<>>
    /\ non_overlapping_entities = <<>>
    /\ anonymized_text = <<>>
    /\ final_entities = <<>>
    /\ k = 0
    /\ result = NoResult
    /\ matches = <<>>
    /\ entities = <<>>
    /\ deanonymized_text = <<>>
    /\ i = 0
    /\ delay = initial_delay
    /\ calls = <<>>
    /\ sleeps = <<>>

-----------------------------------------------------------------------------
(* anonymizer_hybrid.py: Anonymizer.__init__ and anonymize_text *)

hybridVars == <<nlp_pipeline, ner_results, entities_to_anonymize,
                candidates, non_overlapping_entities, anonymized_text, final_entities,
                k, result>>
apiVars == <<matches, entities, deanonymized_text>>
cohereVars == <<i, delay, calls, sleeps>>

\* __init__: without a tokenizer and a model there is no pipeline; with them
\* pipeline("ner", ...) builds one, or raises
Construct ==
    /\ prog = "hybrid" /\ pc = "new"
    /\ \/ /\ nlp_pipeline' = "None"
          /\ pc' = "ready"
       \/ /\ nlp_pipeline' = "pipeline"
          /\ pc' = "ready"
       \/ /\ nlp_pipeline' = "unset"
          /\ pc' = "init_raised"
    /\ UNCHANGED <<prog, text, cuts, ner_results, entities_to_anonymize,
                   candidates, non_overlapping_entities, anonymized_text, final_entities,
                   k, result, apiVars, cohereVars>>

\* anonymize_text, steps 1 and 2: self.nlp_pipeline(text), which returns
\* entity groups or raises (nothing catches what it raises), then the matches
\* of the regex rules
Collect ==
    /\ prog = "hybrid" /\ pc = "ready"
    /\ \E regex_entities \in {RegexEntities(text)} :
        \/ /\ nlp_pipeline = "None"
           /\ ner_results' = <<>>
           /\ entities_to_anonymize' = regex_entities
           /\ pc' = "resolve"
        \/ /\ nlp_pipeline = "pipeline"
           /\ \E ner \in NerOutputs(text, cuts) :
                 /\ ner_results' = ner
                 /\ entities_to_anonymize' =
                         NerEntities(text, ner) \o regex_entities
           /\ pc' = "resolve"
        \/ /\ nlp_pipeline = "pipeline"
           /\ UNCHANGED <<ner_results, entities_to_anonymize>>
           /\ pc' = "raised"
    /\ UNCHANGED <<prog, text, cuts, nlp_pipeline, candidates,
                   non_overlapping_entities, anonymized_text, final_entities,
                   k, result, apiVars, cohereVars>>

\* anonymize_text, steps 3 and 4: the resolver (which sorts its argument in
\* place), the sort by end, and the start of the replacement loop
Resolve ==
    /\ prog = "hybrid" /\ pc = "resolve"
    /\ non_overlapping_entities' =
            SortByEnd(filter_overlapping_entities(entities_to_anonymize))
    /\ candidates' = entities_to_anonymize
    /\ entities_to_anonymize' = SortByLength(entities_to_anonymize)
    /\ anonymized_text' = text
    /\ final_entities' = <<>>
    /\ k' = 1
    /\ pc' = "splice"
    /\ UNCHANGED <<prog, text, cuts, nlp_pipeline, ner_results, result,
                   apiVars, cohereVars>>

\* anonymize_text, step 5: one iteration of the replacement loop
SpliceNext ==
    /\ prog = "hybrid" /\ pc = "splice"
    /\ k <= Len(non_overlapping_entities)
    /\ anonymized_text' = Splice(anonymized_text, non_overlapping_entities[k])
    /\ final_entities' = Append(final_entities, Entity(non_overlapping_entities[k]))
    /\ k' = k + 1
    /\ UNCHANGED <<prog, pc, text, cuts, nlp_pipeline, ner_results,
                   entities_to_anonymize, candidates, non_overlapping_entities,
                   result,
                   apiVars, cohereVars>>

\* anonymize_text: return anonymized_text, sorted(final_entities, ...)
Return ==
    /\ prog = "hybrid" /\ pc = "splice"
    /\ k > Len(non_overlapping_entities)
    /\ result' = [kind |-> "return", anonymized_text |-> anonymized_text,
                  entities |-> SortByStart(final_entities)]
    /\ pc' = "done"
    /\ UNCHANGED <<prog, text, cuts, nlp_pipeline, ner_results,
                   entities_to_anonymize, candidates, non_overlapping_entities,
                   anonymized_text, final_entities, k, apiVars, cohereVars>>

-----------------------------------------------------------------------------
(* fastapi_app.py: the two endpoints of the Anonymizer *)

\* POST /api/anonymize
ApiAnonymize ==
    /\ prog = "api" /\ pc = "request"
    /\ matches' = SortedMatches(text)
    /\ anonymized_text' = api_anonymize_text(text).anonymized_text
    /\ entities' = api_anonymize_text(text).entities
    /\ pc' = "anonymized"
    /\ UNCHANGED <<prog, text, cuts, nlp_pipeline, ner_results,
                   entities_to_anonymize, candidates, non_overlapping_entities,
                   final_entities, k, result, deanonymized_text, cohereVars>>

\* POST /api/deanonymize with the text and the entities of the response
ApiDeanonymize ==
    /\ prog = "api" /\ pc = "anonymized"
    /\ deanonymized_text' = api_deanonymize_text(anonymized_text, entities)
    /\ pc' = "deanonymized"
    /\ UNCHANGED <<prog, text, cuts, hybridVars, matches, entities, cohereVars>>

-----------------------------------------------------------------------------
(* fastapi_app.py: get_cohere_analysis, one iteration of `for i in range(retries)` *)

Attempt ==
    /\ prog = "cohere" /\ pc = "call"
    /\ \E o \in ChatOutcomes :
        /\ calls' = Append(calls, o)
        /\ \/ /\ o.kind = "response"
              /\ result' = [kind |-> "return", status_code |-> o.status_code]
              /\ pc' = "returned"
              /\ UNCHANGED <<i, delay, sleeps>>
           \/ /\ o.kind = "ApiError"
              /\ ShouldRetry(o.status_code, i)
              /\ sleeps' = Append(sleeps, delay)
              /\ delay' = delay * 2
              /\ i' = i + 1
              /\ pc' = IF i + 1 < retries THEN "call" ELSE "fell_through"
              /\ UNCHANGED result
           \/ /\ o.kind = "ApiError"
              /\ ~ShouldRetry(o.status_code, i)
              /\ result' = [kind |-> "HTTPException", status_code |-> o.status_code]
              /\ pc' = "raised"
              /\ UNCHANGED <<i, delay, sleeps>>
           \/ /\ o.kind = "Exception"
              /\ result' = [kind |-> "HTTPException", status_code |-> 500]
              /\ pc' = "raised"
              /\ UNCHANGED <<i, delay, sleeps>>
    /\ UNCHANGED <<prog, text, cuts, nlp_pipeline, ner_results,
                   entities_to_anonymize, candidates, non_overlapping_entities,
                   anonymized_text, final_entities, k, apiVars>>

-----------------------------------------------------------------------------

Next ==
    \/ Construct
    \/ Collect
    \/ Resolve
    \/ SpliceNext
    \/ Return
    \/ ApiAnonymize
    \/ ApiDeanonymize
    \/ Attempt

Spec == Init /\ [][Next]_vars


\* ---------------------------------------------------------------------
\* Properties
\* ---------------------------------------------------------------------

\* the hybrid anonymize_text has passed overlap resolution
Resolved == prog = "hybrid" /\ pc \in {"splice", "done"}

\* the hybrid anonymize_text has returned
Returned == prog = "hybrid" /\ pc = "done"

RECURSIVE SumOf(_)
SumOf(ns) == IF ns = <<>> THEN 0 ELSE Head(ns) + SumOf(Tail(ns))

\* C1: in fastapi_app, deanonymize_text applied to the output of
\* anonymize_text (text and entity list) gives back the original text, for
\* every input text.
C1_RoundTrip ==
    (prog = "api" /\ pc = "deanonymized") => deanonymized_text = text

\* C2: no two spans returned by _filter_overlapping_entities satisfy
\* a.start < b.end and b.start < a.end.
C2_NonOverlap ==
    Resolved =>
        \A a, b \in 1..Len(non_overlapping_entities) :
            a # b =>
                ~ ( /\ non_overlapping_entities[a].start < non_overlapping_entities[b].end
                    /\ non_overlapping_entities[b].start < non_overlapping_entities[a].end )

\* C4: the returned text has the length of the input, minus the lengths of
\* the resolved spans, plus the lengths of their placeholders.
C4_LengthLaw ==
    Returned =>
        Len(result.anonymized_text) =
            Len(text)
            - SumOf([j \in 1..Len(non_overlapping_entities) |->
                        non_overlapping_entities[j].end - non_overlapping_entities[j].start])
            + SumOf([j \in 1..Len(non_overlapping_entities) |->
                        Len(non_overlapping_entities[j].replacement)])

\* C4 witness: a call returned after replacing at least two spans, one of
\* them by a placeholder of a different length
C4_Witness ==
    /\ Returned
    /\ Len(non_overlapping_entities) >= 2
    /\ \E j \in 1..Len(non_overlapping_entities) :
          Len(non_overlapping_entities[j].replacement) #
              non_overlapping_entities[j].end - non_overlapping_entities[j].start

\* C5: when no matcher reports any span, anonymize_text returns the input
\* text unchanged and an empty entity list (both Anonymizer classes).
C5_Identity ==
    /\ (Returned /\ ner_results = <<>> /\ candidates = <<>>) =>
          (result.anonymized_text = text /\ result.entities = <<>>)
    /\ (prog = "api" /\ pc \in {"anonymized", "deanonymized"} /\ matches = <<>>) =>
          (anonymized_text = text /\ entities = <<>>)

\* C5 witness: the fastapi anonymize_text has run on a non-empty text in
\* which no pattern matched
C5_Witness ==
    prog = "api" /\ pc = "anonymized" /\ matches = <<>> /\ text # <<>>

\* C6: an unavailable NER model (not loaded, or failing to load or to run)
\* never makes a call fail: the call completes with the result of the
\* regex rules alone.
C6_GracefulDegradation ==
    prog = "hybrid" =>
        /\ pc # "raised"
        /\ (pc = "done" /\ nlp_pipeline = "None") =>
              (ner_results = <<>> /\ candidates = RegexEntities(text))

\* C8: no candidate with start >= end is ever passed to
\* _filter_overlapping_entities.
C8_NoEmptySpans ==
    Resolved => \A j \in 1..Len(candidates) : candidates[j].start < candidates[j].end

\* the candidate spans, by their position in the list passed to the resolver
SpanLen(a) == candidates[a].end - candidates[a].start

\* two candidates share at least one character position
Shares(a, b) == EntityRange(candidates[a]) \cap EntityRange(candidates[b]) # {}

\* candidate a is among the spans the resolver returned
Kept(a) ==
    \E m \in 1..Len(non_overlapping_entities) :
        non_overlapping_entities[m] = candidates[a]

\* candidate c is considered before candidate a: longer, or as long and
\* earlier in the candidate list
Prior(c, a) == SpanLen(c) > SpanLen(a) \/ (SpanLen(c) = SpanLen(a) /\ c < a)

\* candidate a was dropped because of a span accepted before it
DroppedForEarlier(a) ==
    /\ ~ Kept(a)
    /\ \E c \in 1..Len(candidates) : Prior(c, a) /\ Kept(c) /\ Shares(c, a)

\* C3 (as stated): of two overlapping candidates the longer is kept and the
\* shorter dropped, unless the longer was itself dropped because of an
\* earlier-accepted span; of two overlapping candidates of equal length the
\* one earlier in the candidate list is the one kept.
C3_Priority ==
    Resolved =>
        \A a, b \in 1..Len(candidates) :
            (a # b /\ Shares(a, b)) =>
                /\ SpanLen(a) > SpanLen(b) =>
                      (Kept(a) /\ ~ Kept(b)) \/ DroppedForEarlier(a)
                /\ (SpanLen(a) = SpanLen(b) /\ a < b) =>
                      (Kept(a) /\ ~ Kept(b))

\* C3 (amended): as above, and the earlier of two overlapping candidates of
\* equal length is the one kept unless it was itself dropped because of a
\* span accepted before it.
C3_PriorityAmended ==
    Resolved =>
        \A a, b \in 1..Len(candidates) :
            (a # b /\ Shares(a, b)) =>
                /\ SpanLen(a) > SpanLen(b) =>
                      (Kept(a) /\ ~ Kept(b)) \/ DroppedForEarlier(a)
                /\ (SpanLen(a) = SpanLen(b) /\ a < b) =>
                      (Kept(a) /\ ~ Kept(b)) \/ DroppedForEarlier(a)

\* C3 witness: the resolver has decided between a longer and a shorter
\* overlapping candidate, and between two overlapping candidates of equal
\* length, keeping the longer and the earlier one
C3_Witness ==
    /\ Resolved
    /\ \E a, b \in 1..Len(candidates) :
          Shares(a, b) /\ SpanLen(a) > SpanLen(b) /\ Kept(a) /\ ~ Kept(b)
    /\ \E a, b \in 1..Len(candidates) :
          Shares(a, b) /\ SpanLen(a) = SpanLen(b) /\ a < b /\ Kept(a) /\ ~ Kept(b)

\* the placeholders of the spans that start at offset p, in the order of
\* their ends
RECURSIVE Placeholders(_, _, _)
Placeholders(es, o, p) ==
    IF o = <<>> THEN <<>>
    ELSE (IF es[Head(o)].start = p THEN es[Head(o)].replacement ELSE <<>>)
         \o Placeholders(es, Tail(o), p)

\* the text t with every span of es replaced by its placeholder at once,
\* from offset p on
RECURSIVE Simultaneous(_, _, _)
Simultaneous(t, es, p) ==
    IF p > Len(t) THEN <<>>
    ELSE Placeholders(es, OrderAsc([j \in 1..Len(es) |-> es[j].end]), p)
         \o (IF p < Len(t) /\ \A j \in 1..Len(es) : p \notin EntityRange(es[j])
             THEN <<t[p + 1]>> ELSE <<>>)
         \o Simultaneous(t, es, p + 1)

\* C7: when a span is spliced the working text at [start, end) still holds
\* the original characters, and the final text is the original text with
\* every resolved span replaced by its placeholder simultaneously.
C7_SpliceCorrect ==
    /\ (prog = "hybrid" /\ pc = "splice" /\ k <= Len(non_overlapping_entities)) =>
          Slice(anonymized_text, non_overlapping_entities[k].start,
                non_overlapping_entities[k].end)
            = Slice(text, non_overlapping_entities[k].start,
                    non_overlapping_entities[k].end)
    /\ Returned =>
          result.anonymized_text = Simultaneous(text, non_overlapping_entities, 0)

\* the outcome of the n-th call of co.chat was a 429 ApiError
RateLimited(n) ==
    calls[n].kind = "ApiError" /\ calls[n].status_code = TooManyRequests

\* C9: get_cohere_analysis makes at most 5 attempts; an attempt after the
\* first is made only after a 429 failure of the one before and a wait; the
\* waits are 1, 2, 4, 8 seconds; any other failure, and a 429 on the fifth
\* attempt, raises at once; the function ends by returning a response or
\* raising, never by falling out of the loop.
C9_RetryPolicy ==
    prog = "cohere" =>
        /\ Len(calls) <= 5
        /\ \A n \in 1..(Len(calls) - 1) : RateLimited(n)
        /\ \A n \in 1..Len(sleeps) : sleeps[n] = 2 ^ (n - 1)
        /\ pc = "call" => (Len(calls) < 5 /\ Len(sleeps) = Len(calls))
        /\ pc # "call" =>
              /\ Len(calls) >= 1
              /\ Len(sleeps) = Len(calls) - 1
              /\ IF calls[Len(calls)].kind = "response"
                 THEN pc = "returned"
                 ELSE /\ pc = "raised"
                      /\ result.kind = "HTTPException"
                      /\ RateLimited(Len(calls)) => Len(calls) = 5

\* C9 witness: the fifth attempt failed with 429 after waits of 1, 2, 4 and
\* 8 seconds and the call raised
C9_Witness ==
    /\ prog = "cohere" /\ pc = "raised"
    /\ Len(calls) = 5 /\ RateLimited(5)
    /\ sleeps = <<1, 2, 4, 8>>

\* C10: every returned entity's start and end delimit its placeholder in
\* the anonymized text, and the returned ranges do not overlap.
C10_OffsetConvention ==
    Returned =>
        /\ \A j \in 1..Len(result.entities) :
              Slice(result.anonymized_text, result.entities[j].start,
                    result.entities[j].end) = result.entities[j].replacement
        /\ \A a, b \in 1..Len(result.entities) :
              a # b =>
                  ~ ( /\ result.entities[a].start < result.entities[b].end
                      /\ result.entities[b].start < result.entities[a].end )

====
